---- MODULE Spec2Model ----
(***************************************************************************)
(* Model of the transaction mempool of                                     *)
(* node/src/application/mempool.rs (struct Mempool: add / retain / next)   *)
(* and of the event stream of client/src/events.rs (struct Stream: the     *)
(* reader task spawned by new / new_with_verifier, and next).              *)
(*                                                                         *)
(* The two capacity constants are scaled down (16 -> 2, 32768 -> 3) so     *)
(* that backlog overflow and global saturation are reachable; the code     *)
(* only ever compares lengths against them.                                *)
(***************************************************************************)
EXTENDS Integers, Sequences, FiniteSets, TLC

\* ------------------------------------------------------------------------
\* Bounds of the model
\* ------------------------------------------------------------------------

\* Public keys are 1..NumAccounts.
NumAccounts == 2

\* Nonces are 0..MaxNonce (u64 in the code; the code never does arithmetic on them).
MaxNonce == 2

\* The drain queue is a VecDeque that stale entries can grow without limit:
\* an add that would push onto a queue of this length is not taken.
MaxQueue == 3

\* SpecSkips stops counting after MaxRemoved transactions were removed by
\* retain and next.
MaxRemoved == 3

\* The transport of a stream delivers at most MaxFrames frames.
MaxFrames == 3

\* ------------------------------------------------------------------------
\* Program constants (scaled)
\* ------------------------------------------------------------------------

\* const MAX_BACKLOG: usize = 16, scaled to 2.
MAX_BACKLOG == 2

\* const MAX_TRANSACTIONS: usize = 32_768, scaled to 3: above MAX_BACKLOG, so
\* that an account can overflow before the mempool is full, and below
\* NumAccounts * MAX_BACKLOG, so that the mempool can fill up.
MAX_TRANSACTIONS == 3

\* ------------------------------------------------------------------------
\* Domain types
\* ------------------------------------------------------------------------

PublicKey == 1..NumAccounts

Nonce == 0..MaxNonce

\* The payload of a transaction; the tests sign Generate and Match.
Instruction == {"Generate", "Match"}

Transaction == [public : PublicKey, nonce : Nonce, instruction : Instruction]

InstructionCode(i) == IF i = "Generate" THEN 0 ELSE 1

\* tx.digest(): the content hash of the transaction, a function of all of its
\* fields and injective on them (collisions of sha256 are not modelled).
Digest(tx) == ((tx.public * (MaxNonce + 1)) + tx.nonce) * 2 + InstructionCode(tx.instruction)

\* ------------------------------------------------------------------------
\* Map and queue helpers (HashMap / BTreeMap / VecDeque)
\* ------------------------------------------------------------------------

\* HashMap::insert / BTreeMap::insert
Insert(m, k, v) == [x \in (DOMAIN m) \cup {k} |-> IF x = k THEN v ELSE m[x]]

\* HashMap::remove / BTreeMap::remove (no effect on an absent key)
Remove(m, k) == [x \in (DOMAIN m) \ {k} |-> m[x]]

\* HashMap::new / BTreeMap::default
EmptyMap == [x \in {} |-> 0]

\* BTreeMap::first_key_value: the smallest key of a non-empty ordered map
FirstKey(m) == CHOOSE k \in DOMAIN m : \A j \in DOMAIN m : k <= j

\* BTreeMap::pop_last: the greatest key of a non-empty ordered map
LastKey(m) == CHOOSE k \in DOMAIN m : \A j \in DOMAIN m : j <= k

\* HashMap::entry(k).or_default()
OrDefault(m, k) == IF k \in DOMAIN m THEN m ELSE Insert(m, k, EmptyMap)

\* BTreeMap::len / HashMap::len
Size(m) == Cardinality(DOMAIN m)

\* Option<Transaction>: None is <<>>, Some(tx) is <<tx>>
None == <<>>

Some(tx) == <<tx>>

\* ------------------------------------------------------------------------
\* State
\* ------------------------------------------------------------------------

\* transactions, tracked, queue, unique, accounts: the fields of Mempool.
\* op:  the last call and the exit it took (observation, not program state).
\* ret: the value the last call returned (None for add and retain).
\* phase, admitted, returned, last: observation logs of the specifications
\*      SpecFill, SpecRuns and SpecOrder below; Spec leaves them alone.
VARIABLES transactions, tracked, queue, unique, accounts, op, ret,
          phase, admitted, returned, last

\* tally: the observation log of the specification SpecSkips below: the stale
\*        queue entries next has read through, the transactions retain and
\*        next have removed, and the accounts retain has emptied, since new.
VARIABLE tally

\* The event stream (SpecStream below; the mempool specifications leave it alone).
\* mode:      the constructor used, "new" or "new_with_verifier".
\* ws:        the frames the transport delivers, in order.
\* pos:       the index in ws of the frame the reader task reads next.
\* task:      the reader task, "running" or "done" (tx and ws are dropped).
\* chan:      the items in the unbounded channel.
\* alive:     the consumer still holds the Stream (the receiver).
\* afterDrop: the frames the reader has read since the Stream was dropped
\*            (observation).
\* out:       the results of the consumer's next calls, a run of None results
\*            logged once (observation).
VARIABLES mode, ws, pos, task, chan, alive, afterDrop, out

mempoolVars == <<transactions, tracked, queue, unique, accounts, op, ret,
                 phase, admitted, returned, last, tally>>

streamVars == <<mode, ws, pos, task, chan, alive, afterDrop, out>>

vars == <<mempoolVars, streamVars>>

logs == <<phase, admitted, returned, last, tally, streamVars>>

\* No stream has been constructed.
NoStream ==
    /\ mode = "new"
    /\ ws = <<>>
    /\ pos = 1
    /\ task = "running"
    /\ chan = <<>>
    /\ alive = TRUE
    /\ afterDrop = 0
    /\ out = <<>>

\* Mempool::new
Init ==
    /\ transactions = EmptyMap
    /\ tracked = EmptyMap
    /\ queue = <<>>
    /\ unique = 0
    /\ accounts = 0
    /\ op = [kind |-> "new", exit |-> "done"]
    /\ ret = None
    /\ phase = "fill"
    /\ admitted = <<>>
    /\ returned = <<>>
    /\ last = [a \in PublicKey |-> [nonce |-> -1, added |-> FALSE]]
    /\ tally = [skipped |-> 0, removed |-> 0, emptied |-> 0]
    /\ NoStream

\* ------------------------------------------------------------------------
\* Mempool::add
\* ------------------------------------------------------------------------

\* Mutant of SetGauge: the gauge is incremented (Gauge::inc) instead of set.
SetGaugeAsInc(gauge, len) == gauge + 1

\* `self.unique.set(len as i64)` / `self.accounts.set(len as i64)`: the value
\* the gauge holds afterwards
SetGauge(gauge, len) == len

\* Mutant of DropAccount: the emptied account stays in the tracked map.
DropAccountForgotten(trk, public) == trk

\* `self.tracked.remove(public)`
DropAccount(trk, public) == Remove(trk, public)

\* Mutant of Full: the cap is never checked.
FullNever(len) == FALSE

\* Mutant of Full: the cap checked with > instead of >=.
FullOffByOne(len) == len > MAX_TRANSACTIONS

\* `self.transactions.len() >= MAX_TRANSACTIONS`
Full(len) == len >= MAX_TRANSACTIONS

\* Mutant of NonceTaken: the same-nonce check is skipped.
NonceTakenNever(entry, nonce) == FALSE

\* `entry.contains_key(&tx.nonce)`
NonceTaken(entry, nonce) == nonce \in DOMAIN entry

\* Mutant of Overflow: the backlog cap checked one entry too late.
OverflowOffByOne(entries) == entries > MAX_BACKLOG + 1

\* `entries > MAX_BACKLOG`
Overflow(entries) == entries > MAX_BACKLOG

\* Mutant of PopLast: the overflow evicts the lowest nonce (pop_first).
PopLastAsFirst(entry) == FirstKey(entry)

\* `entry.pop_last()`: the key of the entry removed on overflow
PopLast(entry) == LastKey(entry)

\* Mutant of RemoveFuture: the evicted digest stays in the primary index.
RemoveFutureKept(txs, future) == txs

\* `self.transactions.remove(&future)`
RemoveFuture(txs, future) == Remove(txs, future)

\* The length of the account's map taken before the insert.
FirstEntryBeforeInsert(entries) == entries = 0

\* Mutant of FirstEntry: every admission pushes the account onto the queue.
FirstEntryAlways(entries) == TRUE

\* `entries == 1`
FirstEntry(entries) == entries = 1

\* The mempool m after add(tx), and the exit the call took.
AddOn(m, tx) ==
    IF Full(Size(m.transactions))
    THEN [transactions |-> m.transactions, tracked |-> m.tracked, queue |-> m.queue,
          unique |-> m.unique, accounts |-> m.accounts, exit |-> "full"]
    ELSE
    LET digest == Digest(tx) IN
    IF digest \in DOMAIN m.transactions
    THEN [transactions |-> m.transactions, tracked |-> m.tracked, queue |-> m.queue,
          unique |-> m.unique, accounts |-> m.accounts, exit |-> "duplicate"]
    ELSE
    LET public == tx.public
        tracked1 == OrDefault(m.tracked, public)
        entry == tracked1[public]
    IN
    IF NonceTaken(entry, tx.nonce)
    THEN [transactions |-> m.transactions, tracked |-> tracked1, queue |-> m.queue,
          unique |-> m.unique, accounts |-> m.accounts, exit |-> "nonce"]
    ELSE
    LET entry1 == Insert(entry, tx.nonce, digest)
        transactions1 == Insert(m.transactions, digest, tx)
        entries == Size(entry1)
        overflow == Overflow(entries)
        future == entry1[PopLast(entry1)]
        entry2 == IF overflow THEN Remove(entry1, PopLast(entry1)) ELSE entry1
        transactions2 == IF overflow THEN RemoveFuture(transactions1, future)
                         ELSE transactions1
        tracked2 == Insert(tracked1, public, entry2)
        queue2 == IF FirstEntry(entries) THEN Append(m.queue, public) ELSE m.queue
    IN
    [transactions |-> transactions2, tracked |-> tracked2, queue |-> queue2,
     unique |-> SetGauge(m.unique, Size(transactions2)),
     accounts |-> SetGauge(m.accounts, Size(tracked2)),
     exit |-> IF overflow THEN "evicted" ELSE "inserted"]

\* The fields of the mempool as they are now.
Self ==
    [transactions |-> transactions, tracked |-> tracked, queue |-> queue,
     unique |-> unique, accounts |-> accounts]

\* The state add(tx) leaves behind and the exit it took.
AddResult(tx) == AddOn(Self, tx)

add(tx) ==
    \E r \in {AddResult(tx)} :
    /\ Len(r.queue) <= MaxQueue
    /\ transactions' = r.transactions
    /\ tracked' = r.tracked
    /\ queue' = r.queue
    /\ unique' = r.unique
    /\ accounts' = r.accounts
    /\ op' = [kind |-> "add", exit |-> r.exit]
    /\ ret' = None

\* ------------------------------------------------------------------------
\* Mempool::retain
\* ------------------------------------------------------------------------

\* Mutant of Keep: the watermark itself is not kept.
KeepStrict(nonce, min) == nonce > min

\* `nonce >= &min`
Keep(nonce, min) == nonce >= min

\* The loop of retain: peel the lowest entries of the account's map until one
\* is kept. Yields the map left, the primary index left, the value the loop
\* breaks with, and whether an entry was peeled.
RECURSIVE RetainLoop(_, _, _, _)
RetainLoop(entry, txs, min, popped) ==
    IF DOMAIN entry = {}
    THEN [entry |-> entry, transactions |-> txs, remove |-> TRUE, popped |-> popped]
    ELSE
    LET nonce == FirstKey(entry)
        digest == entry[nonce]
    IN
    IF Keep(nonce, min)
    THEN [entry |-> entry, transactions |-> txs, remove |-> FALSE, popped |-> popped]
    ELSE RetainLoop(Remove(entry, nonce), Remove(txs, digest), min, TRUE)

\* The state retain(public, min) leaves behind and the exit it took.
RetainResult(public, min) ==
    IF public \notin DOMAIN tracked
    THEN [transactions |-> transactions, tracked |-> tracked, queue |-> queue,
          unique |-> unique, accounts |-> accounts, exit |-> "unknown"]
    ELSE
    LET l == RetainLoop(tracked[public], transactions, min, FALSE)
        peeled == Insert(tracked, public, l.entry)
        tracked1 == IF l.remove THEN DropAccount(peeled, public) ELSE peeled
    IN
    [transactions |-> l.transactions, tracked |-> tracked1, queue |-> queue,
     unique |-> SetGauge(unique, Size(l.transactions)),
     accounts |-> SetGauge(accounts, Size(tracked1)),
     exit |-> IF l.remove THEN "emptied"
              ELSE IF l.popped THEN "trimmed" ELSE "untouched"]

retain(public, min) ==
    \E r \in {RetainResult(public, min)} :
    /\ transactions' = r.transactions
    /\ tracked' = r.tracked
    /\ queue' = r.queue
    /\ unique' = r.unique
    /\ accounts' = r.accounts
    /\ op' = [kind |-> "retain", exit |-> r.exit]
    /\ ret' = None

\* ------------------------------------------------------------------------
\* Mempool::next
\* ------------------------------------------------------------------------

\* Mutant of PopFirst: next takes the highest nonce of the account.
PopFirstAsLast(entry) == LastKey(entry)

\* `tracked.pop_first()`: the key of the entry next takes from an account
PopFirst(entry) == FirstKey(entry)

\* The loop of next over the drain queue q: pop addresses until one is tracked
\* with an entry to pop. found is FALSE when the queue ran out (the `?` return);
\* skipped counts the addresses read through.
RECURSIVE NextLoop(_, _, _)
NextLoop(q, trk, skipped) ==
    IF q = <<>>
    THEN [found |-> FALSE, queue |-> q, tracked |-> trk, digest |-> 0,
          skipped |-> skipped]
    ELSE
    LET address == Head(q)
        q1 == Tail(q)
    IN
    IF address \notin DOMAIN trk
    THEN NextLoop(q1, trk, skipped + 1)
    ELSE
    LET entry == trk[address] IN
    IF DOMAIN entry = {}
    THEN NextLoop(q1, trk, skipped + 1)
    ELSE
    LET nonce == PopFirst(entry)
        digest == entry[nonce]
        entry1 == Remove(entry, nonce)
    IN
    IF DOMAIN entry1 # {}
    THEN [found |-> TRUE, queue |-> Append(q1, address),
          tracked |-> Insert(trk, address, entry1), digest |-> digest,
          skipped |-> skipped]
    ELSE [found |-> TRUE, queue |-> q1,
          tracked |-> DropAccount(Insert(trk, address, entry1), address),
          digest |-> digest,
          skipped |-> skipped]

\* The state next() leaves behind when called on m, the value it returns and
\* the exit it took.
NextOn(m) ==
    LET l == NextLoop(m.queue, m.tracked, 0) IN
    IF ~l.found
    THEN [transactions |-> m.transactions, tracked |-> l.tracked, queue |-> l.queue,
          unique |-> m.unique, accounts |-> m.accounts, tx |-> None,
          exit |-> IF l.skipped > 0 THEN "none_skipped" ELSE "none"]
    ELSE
    LET transactions1 == Remove(m.transactions, l.digest) IN
    [transactions |-> transactions1, tracked |-> l.tracked, queue |-> l.queue,
     unique |-> SetGauge(m.unique, Size(transactions1)),
     accounts |-> SetGauge(m.accounts, Size(l.tracked)),
     tx |-> Some(m.transactions[l.digest]),
     exit |-> IF l.skipped > 0 THEN "some_skipped" ELSE "some"]

NextResult == NextOn(Self)

next ==
    \E r \in {NextResult} :
    /\ transactions' = r.transactions
    /\ tracked' = r.tracked
    /\ queue' = r.queue
    /\ unique' = r.unique
    /\ accounts' = r.accounts
    /\ op' = [kind |-> "next", exit |-> r.exit]
    /\ ret' = r.tx

\* ------------------------------------------------------------------------
\* Spec: any sequence of add / retain / next
\* ------------------------------------------------------------------------

MinNonce == 0..(MaxNonce + 1)

Add == \E tx \in Transaction : add(tx) /\ UNCHANGED logs

Retain == \E public \in PublicKey, min \in MinNonce : retain(public, min) /\ UNCHANGED logs

NextCall == next /\ UNCHANGED logs

Next == Add \/ Retain \/ NextCall

Spec == Init /\ [][Next]_vars

\* ========================================================================
\* Claims checked under Spec
\* ========================================================================

\* All (account, nonce) slots of the per-account index.
Slots == UNION {{<<a, n>> : n \in DOMAIN tracked[a]} : a \in DOMAIN tracked}

RECURSIVE SumSizes(_)
SumSizes(as) ==
    IF as = {} THEN 0
    ELSE LET a == CHOOSE x \in as : TRUE
         IN Cardinality(DOMAIN tracked[a]) + SumSizes(as \ {a})

\* C1: the primary index and the per-account index are in bijection: every
\* digest of transactions sits in exactly one account's map at exactly one
\* nonce, every digest of an account's map is a key of transactions whose
\* transaction carries that account and that nonce, and the sizes agree.
IndexBijection ==
    /\ \A d \in DOMAIN transactions :
           Cardinality({s \in Slots : tracked[s[1]][s[2]] = d}) = 1
    /\ \A s \in Slots :
           LET d == tracked[s[1]][s[2]] IN
           /\ d \in DOMAIN transactions
           /\ transactions[d].public = s[1]
           /\ transactions[d].nonce = s[2]
    /\ Cardinality(DOMAIN transactions) = SumSizes(DOMAIN tracked)

\* C1 witness: next has just returned a transaction and left two accounts
\* tracked.
IndexBijectionWitness ==
    /\ op = [kind |-> "next", exit |-> "some"]
    /\ ret # None
    /\ Cardinality(DOMAIN tracked) = 2

\* C2: the number of stored transactions never exceeds MAX_TRANSACTIONS, and
\* an add on a mempool that stores MAX_TRANSACTIONS leaves exactly that many.
SizeBound ==
    /\ Cardinality(DOMAIN transactions) <= MAX_TRANSACTIONS
    /\ \A tx \in Transaction :
           Cardinality(DOMAIN transactions) = MAX_TRANSACTIONS
           => Cardinality(DOMAIN AddResult(tx).transactions) = MAX_TRANSACTIONS

\* C2 witness: an add was refused by a mempool holding MAX_TRANSACTIONS.
SizeBoundWitness ==
    /\ op = [kind |-> "add", exit |-> "full"]
    /\ Cardinality(DOMAIN transactions) = MAX_TRANSACTIONS

\* C3: every account's nonce map holds at most MAX_BACKLOG entries.
BacklogBound ==
    \A a \in DOMAIN tracked : Cardinality(DOMAIN tracked[a]) <= MAX_BACKLOG

\* C3 witness: an add overflowed an account, which now holds MAX_BACKLOG entries.
BacklogBoundWitness ==
    /\ op = [kind |-> "add", exit |-> "evicted"]
    /\ \E a \in DOMAIN tracked : Cardinality(DOMAIN tracked[a]) = MAX_BACKLOG

\* C4 (as claimed): no public key occurs more than once in the drain queue.
QueueNoDuplicates ==
    \A i, j \in 1..Len(queue) : i # j => queue[i] # queue[j]

FirstWriterWins ==
    \A tx \in Transaction :
        (/\ tx.public \in DOMAIN tracked
         /\ tx.nonce \in DOMAIN tracked[tx.public]
         /\ tracked[tx.public][tx.nonce] # Digest(tx))
        =>
        LET r == AddResult(tx) IN
        /\ r.transactions = transactions
        /\ r.tracked = tracked
        /\ r.queue = queue
        /\ Digest(tx) \notin DOMAIN r.transactions
        /\ tracked[tx.public][tx.nonce] \in DOMAIN r.transactions

\* C10 witness: an add was refused because its nonce was taken by another digest.
FirstWriterWinsWitness ==
    op = [kind |-> "add", exit |-> "nonce"]

AddIdempotent ==
    [](\A tx \in Transaction :
        \A once \in {AddOn(Self, tx)} :
        \A twice \in {AddOn(once, tx)} :
        /\ twice.transactions = once.transactions
        /\ twice.tracked = once.tracked
        /\ twice.queue = once.queue)

\* C12 witness: an add has just evicted an entry, in a state in which an add
\* is admitted without eviction and another one is refused for its nonce.
AddIdempotentWitness ==
    /\ op = [kind |-> "add", exit |-> "evicted"]
    /\ \E tx \in Transaction : AddResult(tx).exit = "inserted"
    /\ \E tx \in Transaction : AddResult(tx).exit = "nonce"

\* C13: between operations no account of tracked has an empty nonce map (a
\* retain or next that removes an account's last entry removes the account).
NoEmptyAccount ==
    \A a \in DOMAIN tracked : DOMAIN tracked[a] # {}

\* C13 witness: a retain has just emptied an account while another stays tracked.
NoEmptyAccountWitness ==
    /\ op = [kind |-> "retain", exit |-> "emptied"]
    /\ Cardinality(DOMAIN tracked) = 1
    /\ Len(queue) > 1

\* C14: after every add, retain or next, on every exit, the transactions gauge
\* equals the size of transactions and the accounts gauge the size of tracked.
GaugesReflectState ==
    /\ unique = Cardinality(DOMAIN transactions)
    /\ accounts = Cardinality(DOMAIN tracked)

\* C14 witness: next has just returned None after reading through a stale
\* queue entry (an exit that writes no gauge).
GaugesReflectStateWitness ==
    /\ op = [kind |-> "next", exit |-> "none_skipped"]
    /\ ret = None
    /\ unique = 0

\* The values returned by n successive next calls made on m.
RECURSIVE DrainOn(_, _)
DrainOn(m, n) ==
    IF n = 0 THEN <<>>
    ELSE LET r == NextOn(m) IN <<r.tx>> \o DrainOn(r, n - 1)

\* C21: always, every tracked account occurs in the drain queue; next returns
\* None exactly when no transaction is stored; and with k transactions stored,
\* k successive next calls return k distinct stored transactions and the call
\* after them returns None.
EveryTrackedQueued ==
    [](/\ \A a \in DOMAIN tracked : \E i \in 1..Len(queue) : queue[i] = a
       /\ NextResult.tx = None <=> DOMAIN transactions = {}
       /\ \A k \in {Size(transactions)} :
          \A rets \in {DrainOn(Self, k + 1)} :
              /\ \A i \in 1..k :
                    /\ rets[i] # None
                    /\ \E d \in DOMAIN transactions : transactions[d] = rets[i][1]
              /\ \A i \in 1..k, j \in 1..k : i # j => rets[i] # rets[j]
              /\ rets[k + 1] = None)

\* C21 witness: a full mempool of two accounts whose queue holds one of them
\* twice.
EveryTrackedQueuedWitness ==
    /\ Size(transactions) = MAX_TRANSACTIONS
    /\ Cardinality(DOMAIN tracked) = 2
    /\ Len(queue) = 3

\* C22: when some queue entry points at a tracked account, next returns the
\* transaction of the smallest nonce of the first such entry's account, drops
\* the queue entries ahead of it, removes the returned transaction from both
\* indices, appends the account to the back of the queue exactly when it keeps
\* an entry, and leaves every other account's entries alone; otherwise it
\* returns None.
NextTakesLowestOfFirstTracked ==
    \A r \in {NextResult} :
        LET live == {i \in 1..Len(queue) : queue[i] \in DOMAIN tracked} IN
        IF live = {}
        THEN r.tx = None
        ELSE
        LET first == CHOOSE i \in live : \A j \in live : i <= j
            a == queue[first]
            n == CHOOSE x \in DOMAIN tracked[a] : \A y \in DOMAIN tracked[a] : x <= y
            d == tracked[a][n]
            rest == SubSeq(queue, first + 1, Len(queue))
            more == DOMAIN tracked[a] # {n}
        IN
        /\ r.tx = Some(transactions[d])
        /\ r.tx[1].public = a
        /\ r.tx[1].nonce = n
        /\ r.queue = IF more THEN Append(rest, a) ELSE rest
        /\ DOMAIN r.transactions = (DOMAIN transactions) \ {d}
        /\ \A e \in DOMAIN r.transactions : r.transactions[e] = transactions[e]
        /\ IF more
           THEN /\ a \in DOMAIN r.tracked
                /\ r.tracked[a] = [x \in (DOMAIN tracked[a]) \ {n} |-> tracked[a][x]]
           ELSE a \notin DOMAIN r.tracked
        /\ (DOMAIN r.tracked) \ {a} = (DOMAIN tracked) \ {a}
        /\ \A b \in (DOMAIN tracked) \ {a} : r.tracked[b] = tracked[b]

\* C22 witness: a next has just read through a stale queue entry and returned
\* the lowest of two entries of the account behind it, which was re-appended.
NextTakesLowestWitness ==
    /\ op = [kind |-> "next", exit |-> "some_skipped"]
    /\ ret # None
    /\ queue # <<>>
    /\ queue[Len(queue)] = ret[1].public
    /\ ret[1].nonce = 0

\* ========================================================================
\* SpecRuns: any sequence of add / retain / next, logging in `returned` the
\* accounts returned by the current run of consecutive next calls
\* ========================================================================

\* The public key of the transaction a call returned, appended to a log.
Logged(log, r) == IF r = None THEN log ELSE Append(log, r[1].public)

AddRuns ==
    /\ \E tx \in Transaction : add(tx)
    /\ returned' = <<>>
    /\ UNCHANGED <<phase, admitted, last, tally, streamVars>>

RetainRuns ==
    /\ \E public \in PublicKey, min \in MinNonce : retain(public, min)
    /\ returned' = <<>>
    /\ UNCHANGED <<phase, admitted, last, tally, streamVars>>

NextRuns ==
    /\ next
    /\ returned' = Logged(returned, ret')
    /\ UNCHANGED <<phase, admitted, last, tally, streamVars>>

NextOfRuns == AddRuns \/ RetainRuns \/ NextRuns

SpecRuns == Init /\ [][NextOfRuns]_vars

\* How often account a occurs in log[i+1 .. j-1].
Between(log, i, j, a) == Cardinality({k \in (i + 1)..(j - 1) : log[k] = a})

\* C5 (as claimed): in a run of consecutive next calls, between two consecutive
\* returns of the same account no other account is returned twice, and every
\* other account that still holds a transaction has been returned exactly once.
StrictRoundRobin ==
    \A i, j \in 1..Len(returned) :
        (/\ i < j
         /\ returned[i] = returned[j]
         /\ Between(returned, i, j, returned[i]) = 0)
        =>
        /\ \A b \in PublicKey : Between(returned, i, j, b) <= 1
        /\ j = Len(returned) =>
               \A b \in (DOMAIN tracked) \ {returned[j]} :
                   Between(returned, i, j, b) = 1

\* ========================================================================
\* SpecFill: a mempool populated by add calls only and then drained by next
\* calls only. `admitted` logs the accounts in the order of their first
\* admission, `returned` the accounts of the transactions next returns.
\* ========================================================================

AddFill ==
    /\ phase = "fill"
    /\ \E tx \in Transaction :
           /\ add(tx)
           /\ admitted' = IF tx.public \notin DOMAIN tracked /\ tx.public \in DOMAIN tracked'
                          THEN Append(admitted, tx.public)
                          ELSE admitted
    /\ UNCHANGED <<phase, returned, last, tally, streamVars>>

NextFill ==
    /\ next
    /\ phase' = "drain"
    /\ returned' = Logged(returned, ret')
    /\ UNCHANGED <<admitted, last, tally, streamVars>>

NextOfFill == AddFill \/ NextFill

SpecFill == Init /\ [][NextOfFill]_vars

\* How often account a occurs in a log.
Occurrences(log, a) == Cardinality({k \in 1..Len(log) : log[k] = a})

\* The number of transactions account a stored when the drain began: those
\* still tracked and those returned since.
Stored(a) ==
    (IF a \in DOMAIN tracked THEN Cardinality(DOMAIN tracked[a]) ELSE 0)
    + Occurrences(returned, a)

\* The accounts of `admitted`, in order, that stored at least r transactions.
Round(r) == SelectSeq(admitted, LAMBDA a : Stored(a) >= r)

\* Rounds r, r + 1, ..., as long as some account takes part.
RECURSIVE Schedule(_)
Schedule(r) == IF Round(r) = <<>> THEN <<>> ELSE Round(r) \o Schedule(r + 1)

\* C6: after a fill by add only, the accounts next returns are, in order, the
\* rounds of the first-admission order, each round skipping the accounts that
\* have run out; when next returns None every account with k stored
\* transactions has been returned exactly k times.
DrainFollowsAdmissionOrder ==
    phase = "drain" =>
        /\ Len(returned) <= Len(Schedule(1))
        /\ returned = SubSeq(Schedule(1), 1, Len(returned))
        /\ ret = None => returned = Schedule(1)
        /\ ret = None => DOMAIN tracked = {}

\* C6 witness: two accounts, one with a straggler, have been drained to the end.
DrainFollowsAdmissionOrderWitness ==
    /\ phase = "drain"
    /\ op.kind = "next"
    /\ ret = None
    /\ Len(admitted) = 2
    /\ Len(returned) = MAX_TRANSACTIONS

\* ========================================================================
\* SpecOrder: any sequence of add / retain / next, logging in `last`, per
\* account, the nonce next returned last and whether add was called for the
\* account since
\* ========================================================================

AddOrder ==
    /\ \E tx \in Transaction :
           /\ add(tx)
           /\ last' = [last EXCEPT ![tx.public].added = TRUE]
    /\ UNCHANGED <<phase, admitted, returned, tally, streamVars>>

RetainOrder ==
    /\ \E public \in PublicKey, min \in MinNonce : retain(public, min)
    /\ UNCHANGED <<phase, admitted, returned, last, tally, streamVars>>

NextOrder ==
    /\ next
    /\ last' = IF ret' = None THEN last
               ELSE [last EXCEPT ![ret'[1].public] =
                        [nonce |-> ret'[1].nonce, added |-> FALSE]]
    /\ UNCHANGED <<phase, admitted, returned, tally, streamVars>>

NextOfOrder == AddOrder \/ RetainOrder \/ NextOrder

SpecOrder == Init /\ [][NextOfOrder]_vars

AddSkips ==
    /\ \E tx \in Transaction : add(tx)
    /\ UNCHANGED <<phase, admitted, returned, last, tally, streamVars>>

RetainSkips ==
    /\ \E public \in PublicKey, min \in MinNonce : retain(public, min)
    /\ tally' = [tally EXCEPT
                    !.removed = @ + (Size(transactions) - Size(transactions')),
                    !.emptied = @ + (IF op'.exit = "emptied" THEN 1 ELSE 0)]
    /\ tally'.removed <= MaxRemoved
    /\ UNCHANGED <<phase, admitted, returned, last, streamVars>>

NextSkips ==
    /\ next
    /\ tally' = [tally EXCEPT
                    !.skipped = @ + NextLoop(queue, tracked, 0).skipped,
                    !.removed = @ + (IF ret' # None THEN 1 ELSE 0)]
    /\ tally'.removed <= MaxRemoved
    /\ UNCHANGED <<phase, admitted, returned, last, streamVars>>

NextOfSkips == AddSkips \/ RetainSkips \/ NextSkips

SpecSkips == Init /\ [][NextOfSkips]_vars

Frame ==
    [kind : {"Binary"}, decodes : BOOLEAN, verifies : BOOLEAN]
        \cup [kind : {"Close", "Other", "Error"}, decodes : {FALSE}, verifies : {FALSE}]

Mode == {"new", "new_with_verifier"}

\* The items of the channel.  `id` is the position in ws of the frame the item
\* was made from: it tells the events (and errors) of different frames apart.
Ok(i) == [tag |-> "Ok", id |-> i]

Err(e, i) == [tag |-> e, id |-> i]

\* The result None of next.
NoItem == [tag |-> "None", id |-> 0]

\* T::read(&mut buf): the event, or the decoding error.
Read(data, i) == IF data.decodes THEN Ok(i) ELSE Err("InvalidData", i)

\* event.verify(&identity), skipped altogether.
VerifySkipped(data) == TRUE

\* event.verify(&identity).
Verify(data) == data.verifies

\* tx.send(item) on the unbounded channel: it fails, and the item is lost, once
\* the receiver is dropped.
Send(ch, item, open) == IF open THEN Append(ch, item) ELSE ch

\* One iteration of the loop for a binary message, as [send, stop]: the items
\* handed to tx.send and whether the loop breaks even if the send succeeds.
\* Here a decoding error ends the loop.
OnBinaryStopsOnError(data, i) == [send |-> <<Read(data, i)>>, stop |-> ~data.decodes]

\* Stream::new: Ok(event) or Err(InvalidData) is sent; the loop goes on.
OnBinary(data, i) == [send |-> <<Read(data, i)>>, stop |-> FALSE]

\* Stream::new_with_verifier: a decoded event that fails verify is replaced by
\* Err(InvalidSignature), and the loop continues.
OnBinaryVerified(data, i) ==
    IF data.decodes /\ ~Verify(data)
        THEN [send |-> <<Err("InvalidSignature", i)>>, stop |-> FALSE]
        ELSE [send |-> <<Read(data, i)>>, stop |-> FALSE]

\* A close message that does not end the loop.
OnCloseContinues(i) == [send |-> <<Err("ConnectionClosed", i)>>, stop |-> FALSE]

\* Ok(Message::Close(_)): Err(ConnectionClosed) is sent, then break.
OnClose(i) == [send |-> <<Err("ConnectionClosed", i)>>, stop |-> TRUE]

\* Any other message handed to the decoder.
OnOtherDecoded(i) == [send |-> <<Err("InvalidData", i)>>, stop |-> FALSE]

\* Ok(_) => {}: nothing is sent, the loop goes on.
OnOther(i) == [send |-> <<>>, stop |-> FALSE]

\* Err(e): the transport error is sent, then break.
OnError(i) == [send |-> <<Err("Transport", i)>>, stop |-> TRUE]

\* The match of the loop body.
Handle(m, frame, i) ==
    CASE frame.kind = "Binary" ->
            IF m = "new" THEN OnBinary(frame, i) ELSE OnBinaryVerified(frame, i)
      [] frame.kind = "Close" -> OnClose(i)
      [] frame.kind = "Other" -> OnOther(i)
      [] frame.kind = "Error" -> OnError(i)

\* receiver.recv() that does not wait for the sender.
RecvNoWait(ch, t) == IF ch # <<>> THEN <<Head(ch)>> ELSE <<NoItem>>

\* receiver.recv().await / poll_recv: the oldest item; None once the channel is
\* empty and the sender is dropped (the task is done); pending (<<>>) otherwise.
Recv(ch, t) ==
    IF ch # <<>> THEN <<Head(ch)>>
    ELSE IF t = "done" THEN <<NoItem>>
    ELSE <<>>

\* Stream::new / Stream::new_with_verifier over a transport that will deliver
\* the frames of ws: the channel is empty and the reader task is spawned.
InitStream ==
    /\ transactions = EmptyMap
    /\ tracked = EmptyMap
    /\ queue = <<>>
    /\ unique = 0
    /\ accounts = 0
    /\ op = [kind |-> "new", exit |-> "done"]
    /\ ret = None
    /\ phase = "fill"
    /\ admitted = <<>>
    /\ returned = <<>>
    /\ last = [a \in PublicKey |-> [nonce |-> -1, added |-> FALSE]]
    /\ tally = [skipped |-> 0, removed |-> 0, emptied |-> 0]
    /\ mode \in Mode
    /\ ws \in UNION {[1..n -> Frame] : n \in 0..MaxFrames}
    /\ pos = 1
    /\ task = "running"
    /\ chan = <<>>
    /\ alive = TRUE
    /\ afterDrop = 0
    /\ out = <<>>

\* One iteration of `while let Some(msg) = ws.next().await`: the reader takes
\* the frame at pos, sends what the match yields, and breaks on a failed send
\* or on a terminal frame.
ReaderStep ==
    /\ task = "running"
    /\ pos <= Len(ws)
    /\ \E h \in {Handle(mode, ws[pos], pos)} :
        /\ chan' = IF h.send # <<>> THEN Send(chan, h.send[1], alive) ELSE chan
        /\ task' = IF h.stop \/ (h.send # <<>> /\ ~alive) THEN "done" ELSE "running"
    /\ pos' = pos + 1
    /\ afterDrop' = IF alive THEN afterDrop ELSE afterDrop + 1
    /\ UNCHANGED <<mode, ws, alive, out>>

\* ws.next() yields None: the transport ended, the loop and the task end.
ReaderEnd ==
    /\ task = "running"
    /\ pos > Len(ws)
    /\ task' = "done"
    /\ UNCHANGED <<mode, ws, pos, chan, alive, afterDrop, out>>

\* stream.next().await (or poll_next) completes with Some(item) or None.
StreamNext ==
    /\ alive
    /\ \E r \in {Recv(chan, task)} :
        /\ r # <<>>
        /\ chan' = IF r[1] = NoItem THEN chan ELSE Tail(chan)
        /\ out' = IF r[1] = NoItem /\ out # <<>> /\ out[Len(out)] = NoItem
                      THEN out
                      ELSE Append(out, r[1])
    /\ UNCHANGED <<mode, ws, pos, task, alive, afterDrop>>

\* The consumer drops the Stream: the receiver and the items still queued go;
\* dropping the JoinHandle detaches the task, it does not cancel it.
StreamDrop ==
    /\ alive
    /\ alive' = FALSE
    /\ chan' = <<>>
    /\ UNCHANGED <<mode, ws, pos, task, afterDrop, out>>

NextOfStream ==
    \/ ReaderStep /\ UNCHANGED mempoolVars
    \/ ReaderEnd /\ UNCHANGED mempoolVars
    \/ StreamNext /\ UNCHANGED mempoolVars
    \/ StreamDrop /\ UNCHANGED mempoolVars

SpecStream == InitStream /\ [][NextOfStream]_vars

\* ------------------------------------------------------------------------
\* Claims about the event stream (SpecStream)
\* ------------------------------------------------------------------------

Terminal(i) == ws[i].kind \in {"Close", "Error"}

\* The position of the first close message or transport error, Len(ws) + 1 if
\* the transport ends without one.
FirstTerminal ==
    IF \E i \in 1..Len(ws) : Terminal(i)
        THEN CHOOSE i \in 1..Len(ws) : Terminal(i) /\ \A j \in 1..(i - 1) : ~Terminal(j)
        ELSE Len(ws) + 1

\* The item the specification gives to the frame at position i.
ItemFor(i) ==
    CASE ws[i].kind = "Close" -> Err("ConnectionClosed", i)
      [] ws[i].kind = "Error" -> Err("Transport", i)
      [] ws[i].kind = "Binary" /\ ~ws[i].decodes -> Err("InvalidData", i)
      [] ws[i].kind = "Binary" /\ ws[i].decodes
            /\ mode = "new_with_verifier" /\ ~ws[i].verifies -> Err("InvalidSignature", i)
      [] OTHER -> Ok(i)

\* The items the specification gives to the first n frames, in frame order.
Expected(n) ==
    LET Counts(i) == i <= FirstTerminal /\ ws[i].kind # "Other"
        kept == SelectSeq([i \in 1..n |-> i], Counts)
    IN  [k \in 1..Len(kept) |-> ItemFor(kept[k])]

PerFrameTag == {"Ok", "InvalidData", "InvalidSignature"}

TerminalTag == {"ConnectionClosed", "Transport"}

\* The items of a sequence that stand for one binary frame each.
PerFrame(seq) ==
    LET Is(item) == item.tag \in PerFrameTag
    IN  SelectSeq(seq, Is)

\* The items the consumer has obtained from next so far.
Delivered ==
    LET Is(item) == item # NoItem
    IN  SelectSeq(out, Is)

\* The items the consumer has obtained or will obtain without a further frame.
Produced == Delivered \o chan

IsPrefix(a, b) == Len(a) <= Len(b) /\ \A k \in 1..Len(a) : a[k] = b[k]

Positions(seq, i) == {k \in 1..Len(seq) : seq[k].id = i}

\* C15: the per-frame items the consumer obtains are, in frame order, the
\* items of the binary frames before the first terminal frame: always a prefix
\* of them, exactly those of the frames read so far once the channel is
\* counted in while the consumer holds the stream, and all of them when next
\* has returned None; other frames give no item.
FrameOrder ==
    /\ IsPrefix(PerFrame(Delivered), PerFrame(Expected(Len(ws))))
    /\ alive => PerFrame(Produced) = PerFrame(Expected(pos - 1))
    /\ (out # <<>> /\ out[Len(out)] = NoItem)
            => PerFrame(Delivered) = PerFrame(Expected(Len(ws)))

\* Two binary frames around an ignored one were delivered, then None.
FrameOrderWitness ==
    /\ Len(ws) = 3
    /\ ws[1].kind = "Binary" /\ ws[2].kind = "Other" /\ ws[3].kind = "Binary"
    /\ Len(out) = 3 /\ out[1].id = 1 /\ out[2].id = 3 /\ out[3] = NoItem

\* C16: once the reader has read the first close message or transport error
\* it is done and has read nothing after it; while the consumer holds the
\* stream, the terminal item of that frame is the last item produced and the
\* only terminal item; a terminal item obtained from next is followed by None
\* only; no item comes from a frame after the terminal frame.
TerminalIsLast ==
    /\ (FirstTerminal <= Len(ws) /\ pos > FirstTerminal)
            => /\ task = "done"
               /\ pos = FirstTerminal + 1
               /\ alive => /\ Produced # <<>>
                           /\ Produced[Len(Produced)] = ItemFor(FirstTerminal)
                           /\ \A k \in 1..(Len(Produced) - 1) :
                                 Produced[k].tag \notin TerminalTag
    /\ \A k \in 1..Len(out) :
            out[k].tag \in TerminalTag
                => /\ out[k] = ItemFor(FirstTerminal)
                   /\ \A j \in (k + 1)..Len(out) : out[j] = NoItem
                   /\ alive => Recv(chan, task) = <<NoItem>>
    /\ \A k \in 1..Len(Produced) : Produced[k].id <= FirstTerminal

\* A terminal item was obtained, then None, with a frame left unread behind
\* the terminal frame.
TerminalIsLastWitness ==
    /\ Len(out) >= 2
    /\ out[Len(out) - 1].tag \in TerminalTag
    /\ out[Len(out)] = NoItem
    /\ FirstTerminal < Len(ws)
    /\ ws[Len(ws)].kind = "Binary"

\* C17: in verified mode an Ok item stands for a frame that decoded and whose
\* event verified; while the consumer holds the stream, every frame read whose
\* event decoded and failed verification has exactly one item, and that item
\* is Err(InvalidSignature).
VerifiedOnly ==
    mode = "new_with_verifier" =>
        /\ \A k \in 1..Len(Produced) :
              Produced[k].tag = "Ok"
                  => /\ ws[Produced[k].id].kind = "Binary"
                     /\ ws[Produced[k].id].decodes
                     /\ ws[Produced[k].id].verifies
        /\ \A k \in 1..Len(Produced) :
              Produced[k].tag = "InvalidSignature"
                  => /\ ws[Produced[k].id].decodes
                     /\ ~ws[Produced[k].id].verifies
        /\ alive =>
              \A i \in 1..(pos - 1) :
                  (ws[i].kind = "Binary" /\ ws[i].decodes /\ ~ws[i].verifies)
                      => /\ Cardinality(Positions(Produced, i)) = 1
                         /\ \A k \in Positions(Produced, i) :
                               Produced[k] = Err("InvalidSignature", i)

\* In verified mode an event that failed verification was obtained as
\* Err(InvalidSignature), and a verified one as Ok.
VerifiedOnlyWitness ==
    /\ mode = "new_with_verifier"
    /\ \E k \in 1..Len(out) : out[k].tag = "InvalidSignature"
    /\ \E k \in 1..Len(out) : out[k].tag = "Ok"

\* C18: while the consumer holds the stream, a binary frame that failed to
\* decode or to verify did not end the reader: it is done only after a
\* terminal frame or the end of the transport, and a later binary frame that
\* was read with no terminal frame before it has its item, after the item of
\* the failed frame, which comes after the item of an earlier binary frame.
FailureIsPerFrame ==
    alive =>
        /\ task = "done" => (pos > Len(ws) \/ Terminal(pos - 1))
        /\ \A i \in 1..(pos - 1), j \in 1..(pos - 1) :
              (/\ i < j
               /\ j < FirstTerminal
               /\ ws[i].kind = "Binary"
               /\ ws[j].kind = "Binary")
                  => \E k \in 1..Len(Produced), l \in 1..Len(Produced) :
                        /\ k < l
                        /\ Produced[k] = ItemFor(i)
                        /\ Produced[l] = ItemFor(j)

\* Ok, Err, Ok were obtained in that order from three binary frames.
FailureIsPerFrameWitness ==
    /\ Len(out) >= 3
    /\ out[1] = Ok(1)
    /\ out[2].tag \in {"InvalidData", "InvalidSignature"} /\ out[2].id = 2
    /\ out[3] = Ok(3)

\* The largest number of frames the transport can deliver after a drop: a
\* bound on the frames the reader may take to notice the drop, however large,
\* is exceeded in the same way.
DropBound == MaxFrames

\* C19: once the consumer has dropped the stream, the reader task is done
\* after at most DropBound further frames, whatever their kinds.
DropReleasesTransport ==
    (~alive /\ afterDrop >= DropBound) => task = "done"

\* C20: next returns None exactly when the reader task is done and the
\* channel is empty; when it has returned None every item the reader pushed
\* was obtained before it, in order; and when the transport ended without a
\* close message or an error, no terminal item was obtained.
NoneIffClosedAndDrained ==
    /\ alive => (Recv(chan, task) = <<NoItem>> <=> (task = "done" /\ chan = <<>>))
    /\ \A k \in 1..Len(out) :
          out[k] = NoItem
              => /\ k = Len(out)
                 /\ task = "done"
                 /\ chan = <<>>
                 /\ Delivered = Expected(pos - 1)
                 /\ FirstTerminal > Len(ws)
                       => /\ pos = Len(ws) + 1
                          /\ \A j \in 1..Len(out) : out[j].tag \notin TerminalTag

\* The transport ended without a close message after two binary frames: both
\* items were obtained, then None.
NoneIffClosedAndDrainedWitness ==
    /\ FirstTerminal > Len(ws)
    /\ Len(out) = 3
    /\ out[1].tag \in PerFrameTag
    /\ out[2].tag \in PerFrameTag
    /\ out[3] = NoItem

====
